---------------------------- MODULE Spec2Model ----------------------------
(***************************************************************************)
(* A model of the scripts of turion-ai/mle.                                *)
(*                                                                         *)
(*   ArbitrageBot  (src/v1.0/qwen/qwen3-vl-235b-a22b-instruct/money.py)    *)
(*       get_market_data, find_arbitrage_opportunities, execute_trade, run *)
(*   AlphaEngine   (src/v1.0/google/gemini-3-pro-preview/money.py)         *)
(*       get_market_price, analyze_market, execute_trade, run              *)
(*   the content API (src/v1.0/moonshotai/kimi-k2-thinking/money.py)       *)
(*       rate_limit, the Stripe webhook                                    *)
(*   MoneyMaker    (src/v1.0/x-ai/grok-4.1-fast/money.py)                  *)
(*       chat                                                              *)
(*   MonetizationEngine (src/v1.0/anthropic/claude-opus-4.1/money.py)      *)
(*       create_premium_content, process_payment                           *)
(*                                                                         *)
(* The scripts are independent programs: one behaviour runs one of them    *)
(* (variable running), the variables of the others keep their initial      *)
(* values.  The money of AlphaEngine is kept as exact fractions.           *)
(*                                                                         *)
(* Prices are Python floats in the source.  The model draws them from a    *)
(* small set of integers (PriceLadder, plus 0, -1 and None) and keeps      *)
(* every percentage as an exact fraction [num, den]; the ladder is chosen  *)
(* so that no quotient falls within rounding distance of a threshold.      *)
(***************************************************************************)
EXTENDS Integers, Sequences, FiniteSets

VARIABLES
    running,        \* which script this behaviour runs
    \* ---- ArbitrageBot
    pc,             \* position of run(): fetch, detect, execute, sleep, backoff, stopped
    fetch_pos,      \* tickers attempted so far by get_market_data in this cycle
    reported,       \* what exchange.fetch_ticker did for each attempt of this cycle
    market_data,    \* the dict get_market_data builds: per symbol, entries in insertion order
    opportunities,  \* the list find_arbitrage_opportunities returned in this cycle
    raised,         \* the exception the cycle raised into run()'s handler ("none" if none)
    opp_idx,        \* position of run()'s for loop over opportunities
    exec_pc,        \* position inside execute_trade: idle, trading
    active_trades,  \* self.active_trades
    trade_history,  \* len(self.trade_history) = len(self.profit_history)
    interrupted,    \* an external interruption ended run()
    watch,          \* observer: one opportunity key (symbol, buy, sell), or NoKey
    window_acts,    \* observer: times run() acted on the watched key since the
                    \* cooldown window of its first act began (counted up to 2)
    \* ---- AlphaEngine
    TIMEFRAME,      \* seconds between ticks, read from the environment at start
    CAPITAL,        \* the start balance, read from the environment at start
    a_pc,           \* position of run(): get_price, process, sleep, backoff, stopped
    fetched,        \* the last HTTP request: its kind, the price the API gave, and
                    \* the start price get_market_price would fall back on
    price,          \* the value get_market_price returned to run()
    signal,         \* the value analyze_market returned to run() (NoSignal before)
    price_history,  \* self.price_history: of each price it holds, the number of
                    \* the tick that brought it (1 for the first price recorded)
    ticks,          \* observer: the number of prices recorded so far
    history_len,    \* len(self.price_history)
    history_last,   \* self.price_history[-1] (None while the deque is empty)
    in_position,    \* self.in_position
    entry_price,    \* self.entry_price
    balance,        \* self.balance
    btc_held,       \* self.btc_held
    total_profit,   \* self.total_profit
    trades_won,     \* self.trades_won
    trades_total,   \* self.trades_total
    a_interrupted,  \* KeyboardInterrupt ended run()
    \* ---- content API
    users,          \* the users table: per user, tier and subscription_id
    rate_count,     \* redis: per user, the value of rate:<id>:<today> (0: no key)
    workers,        \* per request thread: where it stands in rate_limit, the user
                    \* row and limit it read, and its last response status
    admitted,       \* per user, the calls of a wrapped handler made today
    requests,       \* API requests begun
    \* ---- MoneyMaker chat service
    free_count,     \* redis: the value of free:<ip> (0: no key)
    free_ttl,       \* redis: half hours left to free:<ip> (NoTTL: none set)
    free_recent,    \* observer: queries of the ip let through in this half hour
                    \* and in the one before
    pro_keys,       \* redis: per token, paid:<token> and count:<token>
    pro_admitted,   \* observer: per token, the queries let through so far
    handlers,       \* per request in flight: where chat() stands, its token,
                    \* the count it read, and the status of its last response
    \* ---- MonetizationEngine
    content,        \* the content table: per id, purchases and revenue
    customers,      \* the customers table: per id, email and total_spent
    transactions,   \* the transactions table: per id, customer_id, content_id,
                    \* amount and status
    paid            \* what the last call of process_payment returned

arbVars == <<pc, fetch_pos, reported, market_data, opportunities, raised,
             opp_idx, exec_pc, active_trades, trade_history, interrupted,
             watch, window_acts>>

\* the fields of the engine that execute_trade reads and writes
tradeVars == <<in_position, entry_price, balance, btc_held, total_profit,
               trades_won, trades_total>>

alphaVars == <<TIMEFRAME, CAPITAL, a_pc, fetched, price, signal, price_history,
               ticks, history_len, history_last, tradeVars, a_interrupted>>

apiVars == <<users, rate_count, workers, admitted, requests>>

chatVars == <<free_count, free_ttl, free_recent, pro_keys, pro_admitted, handlers>>

payVars == <<content, customers, transactions, paid>>

\* what a step of one script leaves alone: the other scripts
notArb == <<running, alphaVars, apiVars, chatVars, payVars>>
notAlpha == <<running, arbVars, apiVars, chatVars, payVars>>
notApi == <<running, arbVars, alphaVars, chatVars, payVars>>
notChat == <<running, arbVars, alphaVars, apiVars, payVars>>
notPay == <<running, arbVars, alphaVars, apiVars, chatVars>>

vars == <<running, arbVars, alphaVars, apiVars, chatVars, payVars>>

---------------------------------------------------------------------------
(* Bounds of the model *)

\* how many rungs of PriceLadder the exchanges may quote
NumPrices == 3
\* cap on the number of completed trades recorded in trade_history
MaxTrades == 2
\* how many rungs of AlphaLadder the price API may report
NumAlphaPrices == 3
\* cap on the number of API requests begun
MaxRequests == 2
\* how far past its limit a chat counter is driven
MaxOver == 1
\* how many ticks the price history is followed past each of its marks
MaxFollowed == 2

\* rows of content created
MaxContent == 1

\* payments recorded
MaxPayments == 3

---------------------------------------------------------------------------
(* Values *)

\* Python's None, where a price is expected
None == -99

\* exact fractions
Rat(n, d) == [num |-> n, den |-> d]
RatAdd(a, b) == Rat(a.num * b.den + b.num * a.den, a.den * b.den)
Sgn(x) == IF x > 0 THEN 1 ELSE IF x < 0 THEN -1 ELSE 0
RatGT(a, b) == (a.num * b.den - b.num * a.den) * Sgn(a.den) * Sgn(b.den) > 0
RatGE(a, b) == (a.num * b.den - b.num * a.den) * Sgn(a.den) * Sgn(b.den) >= 0
RatEq(a, b) == a.num * b.den = b.num * a.den

---------------------------------------------------------------------------
(* Amounts of money *)
(* The balance, the coins held and the profit are Python floats in the      *)
(* source.  The model keeps an amount as an exact fraction in lowest terms, *)
(* [neg, num, den]: its sign and two naturals of any size.  A natural is    *)
(* the sequence of its digits to base Base, the least digit first and the   *)
(* last digit not 0; zero is the empty sequence.                            *)

\* the value of an expression, worked out once
Only(S) == CHOOSE x \in S : TRUE

Base == 100 * 100

\* the natural numbers as sequences of digits to Base, the least one first.
\* The recursive definitions are functions, which TLC applies to values.
Nats == Seq(Nat)

Digits[n \in Nat] ==
    IF n = 0 THEN <<>> ELSE <<n % Base>> \o Digits[n \div Base]

Strip[a \in Nats] ==
    IF a = <<>> \/ a[Len(a)] # 0 THEN a ELSE Strip[SubSeq(a, 1, Len(a) - 1)]

Rest(a) == IF a = <<>> THEN a ELSE Tail(a)
Least(a) == IF a = <<>> THEN 0 ELSE Head(a)
Shifted(a) == IF a = <<>> THEN a ELSE <<0>> \o a

AddDigits[a \in Nats, b \in Nats, carry \in Nat] ==
    IF a = <<>> /\ b = <<>> THEN Digits[carry]
    ELSE LET s == Least(a) + Least(b) + carry
         IN <<s % Base>> \o AddDigits[Rest(a), Rest(b), s \div Base]

NatAdd(a, b) == AddDigits[a, b, 0]

\* a - b - borrow, for a >= b
SubDigits[a \in Nats, b \in Nats, borrow \in Nat] ==
    IF a = <<>> THEN <<>>
    ELSE LET d == Head(a) - Least(b) - borrow
         IN <<(d + Base) % Base>> \o
            SubDigits[Tail(a), Rest(b), IF d < 0 THEN 1 ELSE 0]

NatSub(a, b) == Strip[SubDigits[a, b, 0]]

NatLess[a \in Nats, b \in Nats] ==
    IF Len(a) # Len(b) THEN Len(a) < Len(b)
    ELSE IF a = <<>> THEN FALSE
    ELSE IF a[Len(a)] # b[Len(b)] THEN a[Len(a)] < b[Len(b)]
    ELSE NatLess[SubSeq(a, 1, Len(a) - 1), SubSeq(b, 1, Len(b) - 1)]

\* a * k + carry, for a digit k
ScaleDigits[a \in Nats, k \in Nat, carry \in Nat] ==
    IF a = <<>> THEN Digits[carry]
    ELSE LET s == Head(a) * k + carry
         IN <<s % Base>> \o ScaleDigits[Tail(a), k, s \div Base]

NatMul[a \in Nats, b \in Nats] ==
    IF a = <<>> \/ b = <<>> THEN <<>>
    ELSE NatAdd(IF Head(b) = 0 THEN <<>> ELSE ScaleDigits[a, Head(b), 0],
                Shifted(NatMul[a, Tail(b)]))

\* quotient and remainder of a by a digit k > 0
QuotRem[a \in Nats, k \in Nat] ==
    IF a = <<>> THEN [q |-> <<>>, r |-> 0]
    ELSE Only({LET low == upper.r * Base + Head(a)
               IN [q |-> Strip[<<low \div k>> \o upper.q], r |-> low % k] :
                 upper \in {QuotRem[Tail(a), k]}})

\* the primes below Base that divide one of the numbers of S
PrimesOf(S) ==
    LET divisors == {f \in 2..(Base - 1) : \E n \in S : n % f = 0}
    IN {f \in divisors : \A d \in divisors : d = f \/ f % d # 0}

\* num / den with every common factor f taken out
Cancel[num \in Nats, den \in Nats, f \in Nat] ==
    Only({IF n.r = 0 /\ d.r = 0 THEN Cancel[n.q, d.q, f] ELSE <<num, den>> :
            n \in {QuotRem[num, f]}, d \in {QuotRem[den, f]}})

\* num / den with the common factors among primes taken out
CancelAll[num \in Nats, den \in Nats, primes \in SUBSET Nat] ==
    IF primes = {} \/ den = <<1>> \/ num = <<>> THEN <<num, den>>
    ELSE LET first == CHOOSE f \in primes : TRUE
         IN Only({CancelAll[c[1], c[2], primes \ {first}] :
                    c \in {Cancel[num, den, first]}})

ZeroAmount == [neg |-> FALSE, num |-> <<>>, den |-> <<1>>]

AmountOf(n) ==
    [neg |-> n < 0, num |-> Digits[IF n < 0 THEN -n ELSE n], den |-> <<1>>]

Positive(a) == ~a.neg /\ a.num # <<>>
Negative(a) == a.neg /\ a.num # <<>>

Negated(a) ==
    Only({IF t.num = <<>> THEN t ELSE [t EXCEPT !.neg = ~t.neg] : t \in {a}})

---------------------------------------------------------------------------
(* ArbitrageBot: configuration *)

EXCHANGES == <<"binance", "kraken", "coinbasepro", "huobi", "okx">>
\* the dict of the exchanges whose client could be built at start, in insertion
\* order: any part of EXCHANGES; here the first three
exchanges == SubSeq(EXCHANGES, 1, 3)
\* the symbols the scan visits: of the five of the source, which the detector
\* treats one by one and alike, the first two
SYMBOLS == <<"BTC/USDT", "ETH/USDT">>
MIN_PROFIT_PERCENT == Rat(5, 10)
FEE_BUFFER == Rat(1, 10)
max_concurrent_trades == 3

NumExchanges == Len(exchanges)
NumSymbols == Len(SYMBOLS)
SymbolSet == {SYMBOLS[i] : i \in 1..NumSymbols}

---------------------------------------------------------------------------
(* ArbitrageBot: what an exchange can answer *)

PriceLadder == <<2000, 2011, 2020, 2040>>
LadderPrices == {PriceLadder[i] : i \in 1..NumPrices}

\* a ticker field: a price of the ladder, zero, a negative number, or None
TickerValues == LadderPrices \cup {0, -1, None}

\* the result of one exchange.fetch_ticker call: a ticker, or an exception
Ticker(a, b) == [ok |-> TRUE, ask |-> a, bid |-> b]
FetchFailed == [ok |-> FALSE, ask |-> None, bid |-> None]
AllTickers == {Ticker(a, b) : a \in TickerValues, b \in TickerValues}
\* the tickers the scan loop is run against
ScanTickers == {Ticker(p, p) : p \in {0, PriceLadder[1], PriceLadder[NumPrices]}}

---------------------------------------------------------------------------
(* ArbitrageBot.get_market_data *)

Entry(name, t) == [exchange |-> name, ask |-> t.ask, bid |-> t.bid]

\* the symbol and the exchange of the attempt that follows `pos` attempts
SymbolAt(pos) == SYMBOLS[(pos \div NumExchanges) + 1]
ExchangeAt(pos) == exchanges[(pos % NumExchanges) + 1]

\* a mutant of NextFetchPos: a failed fetch leaves the inner loop (break)
NextFetchPosBreak(pos, ok) ==
    IF ok THEN pos + 1 ELSE ((pos \div NumExchanges) + 1) * NumExchanges

\* the attempt after this one: a failed fetch is logged and the loop continues
NextFetchPos(pos, ok) == pos + 1

\* the entries a complete round of answers leaves in market_data[symbol]
RECURSIVE Collected(_)
Collected(answers) ==
    IF answers = <<>> THEN <<>>
    ELSE LET n == Len(answers)
             rest == Collected(SubSeq(answers, 1, n - 1))
         IN IF answers[n].ok THEN Append(rest, Entry(exchanges[n], answers[n]))
            ELSE rest

---------------------------------------------------------------------------
(* ArbitrageBot.find_arbitrage_opportunities *)

\* a mutant of FirstMinAsk: among equal asks the last entry wins
LastMinAsk(prices) ==
    CHOOSE i \in 1..Len(prices) :
        /\ \A j \in 1..Len(prices) : prices[i].ask <= prices[j].ask
        /\ \A j \in (i + 1)..Len(prices) : prices[j].ask > prices[i].ask

\* min(prices.keys(), key=ask): the first entry, in iteration order, whose ask is minimal
FirstMinAsk(prices) ==
    CHOOSE i \in 1..Len(prices) :
        /\ \A j \in 1..Len(prices) : prices[i].ask <= prices[j].ask
        /\ \A j \in 1..(i - 1) : prices[j].ask > prices[i].ask

\* max(prices.keys(), key=bid): the first entry, in iteration order, whose bid is maximal
FirstMaxBid(prices) ==
    CHOOSE i \in 1..Len(prices) :
        /\ \A j \in 1..Len(prices) : prices[i].bid >= prices[j].bid
        /\ \A j \in 1..(i - 1) : prices[j].bid < prices[i].bid

\* a mutant of SellPrice: the sell side priced at its ask
SellPriceFromAsk(prices, s) == prices[s].ask

SellPrice(prices, s) == prices[s].bid

\* a mutant of DistinctSides: the same exchange may be both sides
DistinctSidesAny(buy_exchange, sell_exchange) == TRUE

DistinctSides(buy_exchange, sell_exchange) == buy_exchange # sell_exchange

ProfitPercent(buy_price, sell_price) ==
    Rat((sell_price - buy_price) * 100, buy_price)

\* a mutant of ExceedsThreshold: the fee buffer left out
ExceedsThresholdNoBuffer(profit_percent) ==
    RatGT(profit_percent, MIN_PROFIT_PERCENT)

ExceedsThreshold(profit_percent) ==
    RatGT(profit_percent, RatAdd(MIN_PROFIT_PERCENT, FEE_BUFFER))

NoException == "none"
Returned(opps) == [raised |-> NoException, opps |-> opps]
Raised(e) == [raised |-> e, opps |-> <<>>]

\* one iteration of the loop over SYMBOLS: the opportunity appended, or the exception
SymbolScan(symbol, prices) ==
    IF Len(prices) < 2 THEN Returned(<<>>)
    ELSE IF \E i \in 1..Len(prices) : prices[i].ask = None \/ prices[i].bid = None
    THEN Raised("TypeError")
    ELSE
        LET b == FirstMinAsk(prices)
            s == FirstMaxBid(prices)
            buy_price == prices[b].ask
            sell_price == SellPrice(prices, s)
        IN IF DistinctSides(prices[b].exchange, prices[s].exchange)
              /\ sell_price > buy_price
           THEN IF buy_price = 0 THEN Raised("ZeroDivisionError")
                ELSE LET profit_percent == ProfitPercent(buy_price, sell_price)
                     IN IF ExceedsThreshold(profit_percent)
                        THEN Returned(<<[symbol |-> symbol,
                                         buy_exchange |-> prices[b].exchange,
                                         sell_exchange |-> prices[s].exchange,
                                         buy_price |-> buy_price,
                                         sell_price |-> sell_price,
                                         profit_percent |-> profit_percent,
                                         profit_amount |-> sell_price - buy_price]>>)
                        ELSE Returned(<<>>)
           ELSE Returned(<<>>)

\* the loop over SYMBOLS[1..n]: an exception in one symbol leaves the function
RECURSIVE ScanSymbols(_, _)
ScanSymbols(md, n) ==
    IF n = 0 THEN Returned(<<>>)
    ELSE LET before == ScanSymbols(md, n - 1)
         IN IF before.raised # NoException THEN before
            ELSE LET this == SymbolScan(SYMBOLS[n], md[SYMBOLS[n]])
                 IN IF this.raised # NoException THEN this
                    ELSE Returned(before.opps \o this.opps)

find_arbitrage_opportunities(md) == ScanSymbols(md, NumSymbols)

---------------------------------------------------------------------------
(* ArbitrageBot.run and the steps of its cycle *)

NoData == [s \in SymbolSet |-> <<>>]

\* a mutant of NewCycle: the quote dict is kept from one cycle to the next
NewCycleKeepsQuotes ==
    /\ fetch_pos' = 0
    /\ reported' = NoData
    /\ market_data' = market_data
    /\ opportunities' = <<>>
    /\ raised' = NoException
    /\ opp_idx' = 1

\* the locals of a cycle, as a new cycle finds them
NewCycle ==
    /\ fetch_pos' = 0
    /\ reported' = NoData
    /\ market_data' = NoData
    /\ opportunities' = <<>>
    /\ raised' = NoException
    /\ opp_idx' = 1

\* one pass of the inner loop of get_market_data: fetch_ticker answers `t`
FetchTicker(t) ==
    /\ running = "ArbitrageBot"
    /\ pc = "fetch"
    /\ fetch_pos < NumSymbols * NumExchanges
    /\ LET symbol == SymbolAt(fetch_pos)
           next == NextFetchPos(fetch_pos, t.ok)
       IN /\ reported' = [reported EXCEPT ![symbol] = Append(@, t)]
          /\ market_data' =
                IF t.ok
                THEN [market_data EXCEPT
                        ![symbol] = Append(@, Entry(ExchangeAt(fetch_pos), t))]
                ELSE market_data
          /\ fetch_pos' = next
          /\ pc' = IF next >= NumSymbols * NumExchanges THEN "detect" ELSE "fetch"
    /\ UNCHANGED <<notArb, opportunities, raised, opp_idx, exec_pc,
                   active_trades, trade_history, interrupted, watch, window_acts>>

get_market_data == \E t \in ScanTickers \cup {FetchFailed} : FetchTicker(t)

\* a mutant of OnCycleException: an exception of the cycle ends run()
OnCycleExceptionStop == "stopped"

\* where run() goes when a step of the cycle raises: the handler logs and sleeps 60 s
OnCycleException == "backoff"

\* opportunities = self.find_arbitrage_opportunities(market_data)
Detect ==
    /\ running = "ArbitrageBot"
    /\ pc = "detect"
    /\ LET r == find_arbitrage_opportunities(market_data)
       IN /\ raised' = r.raised
          /\ opportunities' = r.opps
          /\ pc' = IF r.raised # NoException THEN OnCycleException
                   ELSE IF r.opps = <<>> THEN "sleep" ELSE "execute"
    /\ opp_idx' = 1
    /\ UNCHANGED <<notArb, fetch_pos, reported, market_data, exec_pc,
                   active_trades, trade_history, interrupted, watch, window_acts>>

\* the next pass of the for loop over opportunities, or the end of the loop
AfterTrade(i) ==
    /\ opp_idx' = i + 1
    /\ pc' = IF i + 1 > Len(opportunities) THEN "sleep" ELSE "execute"

NoKey == <<>>
\* the key of an opportunity
KeyOf(opportunity) ==
    <<opportunity.symbol, opportunity.buy_exchange, opportunity.sell_exchange>>

\* the body of run()'s for loop up to the try block of execute_trade: the
\* opportunity is logged and execute_trade called, whatever was acted on
\* before; then the guard and the increment
ExecuteTradeEnter ==
    /\ running = "ArbitrageBot"
    /\ pc = "execute"
    /\ exec_pc = "idle"
    /\ window_acts' = IF KeyOf(opportunities[opp_idx]) = watch /\ window_acts < 2
                      THEN window_acts + 1 ELSE window_acts
    /\ IF active_trades >= max_concurrent_trades
       THEN /\ AfterTrade(opp_idx)
            /\ UNCHANGED <<exec_pc, active_trades>>
       ELSE /\ active_trades' = active_trades + 1
            /\ exec_pc' = "trading"
            /\ UNCHANGED <<pc, opp_idx>>
    /\ UNCHANGED <<notArb, fetch_pos, reported, market_data, opportunities,
                   raised, trade_history, interrupted, watch>>

\* a mutant of ExecuteTradeFinish: no finally, so the early return on a small
\* balance leaves the counter as it is
ExecuteTradeFinishNoFinally(outcome) ==
    /\ running = "ArbitrageBot"
    /\ pc = "execute"
    /\ exec_pc = "trading"
    /\ outcome = "completed" => trade_history < MaxTrades
    /\ trade_history' = IF outcome = "completed" THEN trade_history + 1
                        ELSE trade_history
    /\ active_trades' = IF outcome = "insufficient" THEN active_trades
                        ELSE active_trades - 1
    /\ exec_pc' = "idle"
    /\ AfterTrade(opp_idx)
    /\ UNCHANGED <<notArb, fetch_pos, reported, market_data, opportunities,
                   raised, interrupted, watch, window_acts>>

\* the try block of execute_trade and its finally: the trade completes and is
\* recorded, or the balance is too small, or an order raises (caught and logged)
ExecuteTradeFinish(outcome) ==
    /\ running = "ArbitrageBot"
    /\ pc = "execute"
    /\ exec_pc = "trading"
    /\ outcome = "completed" => trade_history < MaxTrades
    /\ trade_history' = IF outcome = "completed" THEN trade_history + 1
                        ELSE trade_history
    /\ active_trades' = active_trades - 1
    /\ exec_pc' = "idle"
    /\ AfterTrade(opp_idx)
    /\ UNCHANGED <<notArb, fetch_pos, reported, market_data, opportunities,
                   raised, interrupted, watch, window_acts>>

execute_trade ==
    \/ ExecuteTradeEnter
    \/ \E outcome \in {"completed", "insufficient", "error"} :
          ExecuteTradeFinish(outcome)

\* time passes while run() sleeps: the cooldown window of the watched key goes
\* on, or it has run out
WindowRuns == window_acts' \in {window_acts, 0}

\* await asyncio.sleep(TRADE_INTERVAL), then the next pass of while True
Sleep ==
    /\ running = "ArbitrageBot"
    /\ pc = "sleep"
    /\ pc' = "fetch"
    /\ NewCycle
    /\ WindowRuns
    /\ UNCHANGED <<notArb, exec_pc, active_trades, trade_history, interrupted, watch>>

\* except Exception: log, await asyncio.sleep(60), then the next pass of while True
Backoff ==
    /\ running = "ArbitrageBot"
    /\ pc = "backoff"
    /\ pc' = "fetch"
    /\ NewCycle
    /\ WindowRuns
    /\ UNCHANGED <<notArb, exec_pc, active_trades, trade_history, interrupted, watch>>

\* the process is interrupted from outside and run() ends, its locals with it
\* (the finally of execute_trade returns, which swallows an interruption that
\* arrives inside it)
Interrupt ==
    /\ running = "ArbitrageBot"
    /\ pc # "stopped"
    /\ exec_pc = "idle"
    /\ pc' = "stopped"
    /\ interrupted' = TRUE
    /\ NewCycle
    /\ window_acts' = 0
    /\ UNCHANGED <<notArb, exec_pc, active_trades, trade_history, watch>>

ArbInit ==
    /\ pc = "fetch"
    /\ fetch_pos = 0
    /\ reported = NoData
    /\ market_data = NoData
    /\ opportunities = <<>>
    /\ raised = NoException
    /\ opp_idx = 1
    /\ exec_pc = "idle"
    /\ active_trades = 0
    /\ trade_history = 0
    /\ interrupted = FALSE
    /\ window_acts = 0

ArbStep ==
    \/ get_market_data
    \/ Detect
    \/ execute_trade
    \/ Sleep
    \/ Backoff


---------------------------------------------------------------------------
(* AlphaEngine: configuration and what the price API can answer *)

\* deque(maxlen=100)
HISTORY_MAXLEN == 100
\* analyze_market returns WAIT while len(price_history) < 20
MIN_HISTORY == 20
\* the price get_market_price starts from while the history is empty (50000.0)
DEFAULT_START_PRICE == 50000
\* random.uniform(-0.0001, 0.0001), as a fraction 1 / JITTER_INV of the start price
JITTER_INV == 10000

AlphaLadder == <<50000, 50004, 50010, 50020>>
AlphaPrices == {AlphaLadder[i] : i \in 1..NumAlphaPrices}

\* INITIAL_CAPITAL when the environment does not set it (1000.0), and the start
\* balances the model draws from
DEFAULT_CAPITAL == 1000
Capitals == {DEFAULT_CAPITAL, 0}

\* the prices of the calls of execute_trade from outside run(): around an
\* entry at 2000 the take-profit mark (2006), the stop-loss mark (1997) and a
\* price short of each
TradeLadder == <<2000, 2006, 1997, 2005, 1998>>
TradePrices == {TradeLadder[i] : i \in 1..NumAlphaPrices}

\* the primes the denominator of an amount can hold: those of the prices it
\* was divided by and of the 100 of 0.99
MoneyPrimes ==
    PrimesOf({100} \cup {AlphaLadder[i] : i \in 1..Len(AlphaLadder)}
                   \cup {TradeLadder[i] : i \in 1..Len(TradeLadder)})

Lowest(neg, num, den) ==
    Only({IF c[1] = <<>> THEN ZeroAmount
          ELSE [neg |-> neg, num |-> c[1], den |-> c[2]] :
            c \in {CancelAll[num, den, MoneyPrimes]}})

\* a + b
AmountAdd(a, b) ==
    Only({LET x == NatMul[t[1].num, t[2].den]
              y == NatMul[t[2].num, t[1].den]
              den == NatMul[t[1].den, t[2].den]
          IN IF t[1].neg = t[2].neg THEN Lowest(t[1].neg, NatAdd(x, y), den)
             ELSE IF NatLess[x, y] THEN Lowest(t[2].neg, NatSub(y, x), den)
             ELSE Lowest(t[1].neg, NatSub(x, y), den) :
            t \in {<<a, b>>}})

\* a - b
AmountSub(a, b) == AmountAdd(a, Negated(b))

\* a * n and a / n, for an integer n > 0
AmountTimes(a, n) ==
    Only({Lowest(t.neg, NatMul[t.num, Digits[n]], t.den) : t \in {a}})
AmountOver(a, n) ==
    Only({Lowest(t.neg, t.num, NatMul[t.den, Digits[n]]) : t \in {a}})

\* a = b, whatever terms the two are in
AmountEq(a, b) ==
    /\ (a.num = <<>>) = (b.num = <<>>)
    /\ a.num # <<>> => a.neg = b.neg
    /\ NatMul[a.num, b.den] = NatMul[b.num, a.den]

\* the ticks the model follows: the first ones, to a few past the MIN_HISTORY
\* mark, and those from the last one before the HISTORY_MAXLEN mark
Followed(n) ==
    \/ n < MIN_HISTORY + MaxFollowed
    \/ n >= HISTORY_MAXLEN - 1 /\ n < HISTORY_MAXLEN + MaxFollowed

\* the outcomes of requests.get(url, timeout=5) and of reading its body
FetchKinds == {"ok", "non200", "exception"}

---------------------------------------------------------------------------
(* AlphaEngine.get_market_price *)

Abs(x) == IF x < 0 THEN -x ELSE x

\* start_price * (1 + random.uniform(-0.0001, 0.0001)): the prices of the ladder
\* that lie within that band around start_price
Randomized(start_price) ==
    {p \in AlphaPrices : Abs(p - start_price) * JITTER_INV <= start_price}

\* the values get_market_price may return on a non-200 response
PriceOnNon200(start_price) == Randomized(start_price)


\* the value get_market_price returns when the request or the parsing raises
PriceOnException == None

\* if price: (None and 0.0 are falsy)
Truthy(p) == p # None /\ p # 0

\* run() has not called analyze_market yet
NoSignal == "none"

\* price = self.get_market_price(); if price: ...
AlphaGetPrice(kind, p) ==
    /\ running = "AlphaEngine"
    /\ a_pc = "get_price"
    /\ LET start_price == IF history_len > 0 THEN history_last
                          ELSE DEFAULT_START_PRICE
       IN CASE kind = "ok" -> p \in AlphaPrices \cup {0}
            [] kind = "non200" -> p \in PriceOnNon200(start_price)
            [] kind = "exception" -> p = PriceOnException
    /\ Truthy(p) => Followed(ticks)
    /\ fetched' = [kind |-> kind,
                   reported |-> IF kind = "ok" THEN p ELSE None,
                   start |-> IF history_len > 0 THEN history_last
                             ELSE DEFAULT_START_PRICE]
    /\ price' = p
    /\ a_pc' = IF Truthy(p) THEN "process" ELSE "sleep"
    /\ UNCHANGED <<notAlpha, TIMEFRAME, CAPITAL, signal, price_history, ticks,
                   history_len, history_last, tradeVars, a_interrupted>>

get_market_price ==
    \E kind \in FetchKinds : \E p \in AlphaPrices \cup {0, None} :
        AlphaGetPrice(kind, p)

---------------------------------------------------------------------------
(* AlphaEngine.analyze_market and execute_trade *)

\* deque(maxlen=100).append(x) without the maxlen
DequeAppendUnbounded(history, x) == Append(history, x)

\* deque(maxlen=100).append(x): at full length the oldest entry drops out
DequeAppend(history, x) ==
    IF Len(history) = HISTORY_MAXLEN THEN Append(Tail(history), x)
    ELSE Append(history, x)

\* the signals analyze_market may return once the history has n prices; the
\* indicator itself (moving averages over the deque) is left open
Signals(n) == IF n < MIN_HISTORY THEN {"WAIT"} ELSE {"BUY", "SELL", "HOLD"}

\* the close conditions without the stop loss
ShouldSellNoStopLoss(sig, p) ==
    \/ sig = "SELL"
    \/ (p - entry_price) * 1000 >= 3 * entry_price

\* the close conditions of execute_trade: signal, take profit (0.3%), stop loss (0.15%)
ShouldSell(sig, p) ==
    \/ sig = "SELL"
    \/ (p - entry_price) * 1000 >= 3 * entry_price
    \/ (p - entry_price) * 10000 <= -15 * entry_price

\* a BUY opens a position whether or not one is open
OpensOnAnyBuy(sig) == sig = "BUY"

\* if signal == "BUY" and not self.in_position:
Opens(sig) == sig = "BUY" /\ ~in_position

\* execute_trade(signal, price)
AlphaExecuteTrade(sig, p) ==
    IF Opens(sig)
    THEN LET amount_to_buy == AmountOver(AmountOver(AmountTimes(balance, 99), 100), p)
             cost == AmountTimes(amount_to_buy, p)
         IN /\ btc_held' = amount_to_buy
            /\ balance' = AmountSub(balance, cost)
            /\ entry_price' = p
            /\ in_position' = TRUE
            /\ UNCHANGED <<total_profit, trades_won, trades_total>>
    ELSE IF in_position /\ ShouldSell(sig, p)
    THEN LET sale_value == AmountTimes(btc_held, p)
             profit == AmountSub(sale_value, AmountTimes(btc_held, entry_price))
         IN /\ balance' = AmountAdd(balance, sale_value)
            /\ btc_held' = ZeroAmount
            /\ in_position' = FALSE
            /\ total_profit' = AmountAdd(total_profit, profit)
            /\ trades_total' = trades_total + 1
            /\ trades_won' = IF Positive(profit) THEN trades_won + 1
                             ELSE trades_won
            /\ UNCHANGED entry_price
    ELSE UNCHANGED tradeVars

\* signal = self.analyze_market(price); self.execute_trade(signal, price)
AlphaProcess(sig) ==
    /\ running = "AlphaEngine"
    /\ a_pc = "process"
    /\ ticks' = ticks + 1
    /\ price_history' = DequeAppend(price_history, ticks + 1)
    /\ history_len' = Len(price_history')
    /\ history_last' = price
    /\ sig \in Signals(history_len')
    /\ signal' = sig
    /\ AlphaExecuteTrade(sig, price)
    /\ a_pc' = "sleep"
    /\ UNCHANGED <<notAlpha, TIMEFRAME, CAPITAL, fetched, price, a_interrupted>>

\* time.sleep(TIMEFRAME): a negative length raises ValueError into the handler
AlphaSleep ==
    /\ running = "AlphaEngine"
    /\ a_pc = "sleep"
    /\ a_pc' = IF TIMEFRAME < 0 THEN "backoff" ELSE "get_price"
    /\ UNCHANGED <<notAlpha, TIMEFRAME, CAPITAL, fetched, price, signal,
                   price_history, ticks, history_len, history_last, tradeVars,
                   a_interrupted>>

\* except Exception: log, time.sleep(5), then the next pass of while True
AlphaBackoff ==
    /\ running = "AlphaEngine"
    /\ a_pc = "backoff"
    /\ a_pc' = "get_price"
    /\ UNCHANGED <<notAlpha, TIMEFRAME, CAPITAL, fetched, price, signal,
                   price_history, ticks, history_len, history_last, tradeVars,
                   a_interrupted>>

\* except KeyboardInterrupt: break; run() ends, its locals with it
AlphaInterrupt ==
    /\ running = "AlphaEngine"
    /\ a_pc # "stopped"
    /\ a_pc' = "stopped"
    /\ a_interrupted' = TRUE
    /\ fetched' = [kind |-> "ok", reported |-> None, start |-> DEFAULT_START_PRICE]
    /\ price' = None
    /\ signal' = NoSignal
    /\ UNCHANGED <<notAlpha, TIMEFRAME, CAPITAL, price_history, ticks,
                   history_len, history_last, tradeVars>>

\* a caller other than run(): self.execute_trade(signal, price) with a positive
\* price; signal and price hold the arguments of the call
TradeCall(sig, p) ==
    /\ running = "AlphaEngine.execute_trade"
    /\ trades_total < MaxTrades
    /\ signal' = sig
    /\ price' = p
    /\ AlphaExecuteTrade(sig, p)
    /\ UNCHANGED <<notAlpha, TIMEFRAME, CAPITAL, a_pc, fetched, price_history,
                   ticks, history_len, history_last, a_interrupted>>

execute_trade_calls ==
    \E sig \in {"WAIT", "BUY", "SELL", "HOLD"} : \E p \in TradePrices :
        TradeCall(sig, p)

\* AlphaEngine.__init__(symbol, CAPITAL)
AlphaConstructed ==
    /\ price_history = <<>>
    /\ ticks = 0
    /\ history_len = 0
    /\ history_last = None
    /\ in_position = FALSE
    /\ entry_price = 0
    /\ balance = AmountOf(CAPITAL)
    /\ btc_held = ZeroAmount
    /\ total_profit = ZeroAmount
    /\ trades_won = 0
    /\ trades_total = 0

\* run() about to make its first request
AlphaFresh ==
    /\ a_pc = "get_price"
    /\ fetched = [kind |-> "ok", reported |-> None, start |-> DEFAULT_START_PRICE]
    /\ price = None
    /\ signal = NoSignal
    /\ a_interrupted = FALSE

AlphaIdle ==
    /\ CAPITAL = DEFAULT_CAPITAL
    /\ AlphaConstructed
    /\ AlphaFresh

\* run() after n ticks at the first price of the ladder, none of which traded
AlphaAfter(n) ==
    /\ price_history = [k \in 1..n |-> k]
    /\ ticks = n
    /\ history_len = n
    /\ history_last = AlphaLadder[1]
    /\ in_position = FALSE
    /\ entry_price = 0
    /\ balance = AmountOf(CAPITAL)
    /\ btc_held = ZeroAmount
    /\ total_profit = ZeroAmount
    /\ trades_won = 0
    /\ trades_total = 0
    /\ a_pc = "get_price"
    /\ fetched = [kind |-> "ok", reported |-> AlphaLadder[1], start |-> AlphaLadder[1]]
    /\ price = AlphaLadder[1]
    /\ signal = "HOLD"
    /\ a_interrupted = FALSE

AlphaInit ==
    /\ TIMEFRAME \in {1, -1}
    /\ CAPITAL \in Capitals
    /\ \/ AlphaConstructed /\ AlphaFresh
       \/ AlphaAfter(HISTORY_MAXLEN - 1)

AlphaStep ==
    \/ get_market_price
    \/ \E sig \in {"WAIT", "BUY", "SELL", "HOLD"} : AlphaProcess(sig)
    \/ AlphaSleep
    \/ AlphaBackoff

---------------------------------------------------------------------------
(* The scripts *)

---------------------------------------------------------------------------
(* The content API (src/v1.0/moonshotai/kimi-k2-thinking/money.py):          *)
(* the users table, the rate_limit decorator and the Stripe webhook.           *)
(* Flask serves each request in a thread of its own; the steps of a request    *)
(* are its calls to the database and to redis.                                 *)

UserIds == {"u1", "u2"}
Workers == {1, 2}
NoUser == "none"
NULL == "NULL"

\* the api_key and stripe_customer_id columns, set once by register()
ApiKeyOf(u) == IF u = "u1" THEN "key_1" ELSE "key_2"
CustomerOf(u) == IF u = "u1" THEN "cus_1" ELSE "cus_2"

\* the X-API-Key header of a request: absent, unknown to the table, or a user's
NoApiKey == ""
ApiKeys == {NoApiKey, "key_x"} \cup {ApiKeyOf(u) : u \in UserIds}

STRIPE_PRICE_PRO == "price_123pro"
STRIPE_PRICE_PREMIUM == "price_456premium"
Tiers == {"free", "pro", "premium"}
PaidTiers == {"pro", "premium"}

\* limits = {'free': 10, 'pro': 100, 'premium': 1000}; limits.get(tier, 10)
LimitOf(tier) ==
    IF tier = "free" THEN 10
    ELSE IF tier = "pro" THEN 100
    ELSE IF tier = "premium" THEN 1000
    ELSE 10

\* SELECT id, tier FROM users WHERE api_key = %s
UserByApiKey(api_key) ==
    IF \E u \in UserIds : ApiKeyOf(u) = api_key
    THEN CHOOSE u \in UserIds : ApiKeyOf(u) = api_key
    ELSE NoUser

IdleWorker(status) ==
    [at |-> "idle", user |-> NoUser, user_limit |-> 0, status |-> status]

\* rate_limit up to the rate check: the header, the user row, the limit
BeginRequest(w, api_key) ==
    /\ running = "ContentAPI"
    /\ workers[w].at = "idle"
    /\ requests < MaxRequests
    /\ requests' = requests + 1
    /\ LET user == UserByApiKey(api_key)
       IN workers' = [workers EXCEPT ![w] =
            IF api_key = NoApiKey \/ user = NoUser THEN IdleWorker(401)
            ELSE [at |-> "get", user |-> user,
                  user_limit |-> LimitOf(users[user].tier), status |-> 0]]
    /\ UNCHANGED <<notApi, users, rate_count, admitted>>

\* if current and int(current) >= user_limit
LimitReached(current, user_limit) == current # 0 /\ current >= user_limit

\* a mutant of RedisGet: the request is counted before the limit is compared
RedisGetCounting(w) ==
    /\ running = "ContentAPI"
    /\ workers[w].at = "get"
    /\ rate_count' = [rate_count EXCEPT ![workers[w].user] = @ + 1]
    /\ workers' = [workers EXCEPT ![w] =
            IF LimitReached(rate_count[workers[w].user], workers[w].user_limit)
            THEN IdleWorker(429)
            ELSE [@ EXCEPT !.at = "incr"]]
    /\ UNCHANGED <<notApi, users, admitted, requests>>

\* current = redis_client.get(key) and the comparison with the limit
RedisGet(w) ==
    /\ running = "ContentAPI"
    /\ workers[w].at = "get"
    /\ workers' = [workers EXCEPT ![w] =
            IF LimitReached(rate_count[workers[w].user], workers[w].user_limit)
            THEN IdleWorker(429)
            ELSE [@ EXCEPT !.at = "incr"]]
    /\ UNCHANGED <<notApi, users, rate_count, admitted, requests>>

\* pipe.incr(key); pipe.expire(key, 86400); pipe.execute()
RedisIncr(w) ==
    /\ running = "ContentAPI"
    /\ workers[w].at = "incr"
    /\ rate_count' = [rate_count EXCEPT ![workers[w].user] = @ + 1]
    /\ workers' = [workers EXCEPT ![w].at = "call"]
    /\ UNCHANGED <<notApi, users, admitted, requests>>

\* return f(*args, user_id=user['id'], **kwargs)
CallHandler(w) ==
    /\ running = "ContentAPI"
    /\ workers[w].at = "call"
    /\ admitted' = [admitted EXCEPT ![workers[w].user] = @ + 1]
    /\ workers' = [workers EXCEPT ![w] = IdleWorker(200)]
    /\ UNCHANGED <<notApi, users, rate_count, requests>>

rate_limit ==
    \E w \in Workers :
        \/ \E api_key \in ApiKeys : BeginRequest(w, api_key)
        \/ RedisGet(w)
        \/ RedisIncr(w)
        \/ CallHandler(w)

---------------------------------------------------------------------------
(* The content API: the Stripe webhook *)

SubIds == {"sub_1", "sub_2"}
Customers == {CustomerOf(u) : u \in UserIds} \cup {"cus_x"}
Prices == {STRIPE_PRICE_PRO, STRIPE_PRICE_PREMIUM, "price_other"}
EventTypes == {"customer.subscription.created", "customer.subscription.deleted",
               "invoice.paid"}

\* a POST to /webhook: whether stripe.Webhook.construct_event accepts its
\* signature, and the fields of the event the handler reads
AllWebhookEvents ==
    [valid : BOOLEAN, type : EventTypes, id : SubIds, customer : Customers,
     price : Prices]

\* the events that differ in a field webhook() reads on their path
WebhookEvents ==
    {e \in AllWebhookEvents :
        \/ e.valid /\ e.type = "customer.subscription.created"
        \/ /\ e.valid /\ e.type = "customer.subscription.deleted"
           /\ e.customer = "cus_x" /\ e.price = STRIPE_PRICE_PRO
        \/ /\ e.valid /\ e.type = "invoice.paid"
           /\ e.id = "sub_1" /\ e.customer = "cus_x" /\ e.price = STRIPE_PRICE_PRO
        \/ /\ ~e.valid /\ e.type = "customer.subscription.created"
           /\ e.id = "sub_1" /\ e.customer = "cus_1" /\ e.price = STRIPE_PRICE_PRO}

FreeRow == [tier |-> "free", subscription_id |-> NULL]

\* tier = 'pro' if price_id == config.STRIPE_PRICE_PRO else 'premium'
TierOfPrice(price_id) == IF price_id = STRIPE_PRICE_PRO THEN "pro" ELSE "premium"

\* UPDATE users SET tier = %s, subscription_id = %s WHERE stripe_customer_id = %s
OnSubscriptionCreated(us, event) ==
    [u \in UserIds |->
        IF CustomerOf(u) = event.customer
        THEN [tier |-> TierOfPrice(event.price), subscription_id |-> event.id]
        ELSE us[u]]

\* a mutant of OnSubscriptionDeleted: the tier is reset, the subscription id kept
OnSubscriptionDeletedTierOnly(us, event) ==
    [u \in UserIds |->
        IF us[u].subscription_id = event.id
        THEN [us[u] EXCEPT !.tier = "free"]
        ELSE us[u]]

\* UPDATE users SET tier = 'free', subscription_id = NULL WHERE subscription_id = %s
OnSubscriptionDeleted(us, event) ==
    [u \in UserIds |-> IF us[u].subscription_id = event.id THEN FreeRow ELSE us[u]]

\* webhook(): the users table and the response status it leaves
WebhookResult(us, event) ==
    IF ~event.valid THEN [users |-> us, status |-> 400]
    ELSE IF event.type = "customer.subscription.created"
    THEN [users |-> OnSubscriptionCreated(us, event), status |-> 200]
    ELSE IF event.type = "customer.subscription.deleted"
    THEN [users |-> OnSubscriptionDeleted(us, event), status |-> 200]
    ELSE [users |-> us, status |-> 200]

Webhook(event) ==
    /\ running = "ContentAPI"
    /\ users' = WebhookResult(users, event).users
    /\ UNCHANGED <<notApi, rate_count, workers, admitted, requests>>

webhook == \E event \in WebhookEvents : Webhook(event)

\* the rows the users table may hold when a day begins
StartRows ==
    {FreeRow} \cup [tier : PaidTiers, subscription_id : SubIds]

\* the service with no request in flight and nothing counted
ApiIdle ==
    /\ users = [u \in UserIds |-> FreeRow]
    /\ rate_count = [u \in UserIds |-> 0]
    /\ workers = [w \in Workers |-> IdleWorker(0)]
    /\ admitted = [u \in UserIds |-> 0]
    /\ requests = 0


---------------------------------------------------------------------------
(* MonetizationEngine (src/v1.0/anthropic/claude-opus-4.1/money.py):          *)
(* create_premium_content and process_payment on the SQLite tables content,   *)
(* customers and transactions.  A table is the sequence of its rows, the id   *)
(* of a row its index; amounts are in cents.                                  *)

\* config.content_price, 4.99
CONTENT_PRICE == 499

\* the arguments of process_payment: ids of rows of content and one id past them
Emails == {"customer1@example.com", "customer2@example.com"}
ContentIds == 1..(MaxContent + 1)
Amounts == {CONTENT_PRICE, -CONTENT_PRICE, None}

\* the tables after init_database on a new file
PayIdle ==
    /\ content = <<>>
    /\ customers = <<>>
    /\ transactions = <<>>
    /\ paid = None

\* INSERT INTO content (title, body, topic, price): purchases and revenue
\* take their defaults
create_premium_content ==
    /\ running = "MonetizationEngine"
    /\ Len(content) < MaxContent
    /\ content' = Append(content, [purchases |-> 0, revenue |-> 0])
    /\ UNCHANGED <<notPay, customers, transactions, paid>>

\* SELECT id FROM customers WHERE email = ?: the row found, 0 for none
CustomerWith(email) ==
    IF \E i \in 1..Len(customers) : customers[i].email = email
    THEN CHOOSE i \in 1..Len(customers) : customers[i].email = email
    ELSE 0

\* the customers table after the INSERT of a new customer or the UPDATE of the
\* one found
CustomersAfter(email, amount) ==
    LET customer == CustomerWith(email) IN
    IF customer = 0
    THEN Append(customers, [email |-> email, total_spent |-> amount])
    ELSE [customers EXCEPT ![customer].total_spent = @ + amount]

\* UPDATE content SET purchases = purchases + 1, revenue = revenue + ? WHERE
\* id = ?: no row changes when none has the id
ContentAfter(content_id, amount) ==
    [i \in 1..Len(content) |->
        IF i = content_id
        THEN [purchases |-> content[i].purchases + 1,
              revenue |-> content[i].revenue + amount]
        ELSE content[i]]

\* process_payment(customer_email, content_id, amount).  An amount of None
\* fails the NOT NULL of transactions.amount: the exception is caught, nothing
\* was committed and the connection closes, False is returned.  Foreign keys
\* are not enforced on the connection, so any content_id is inserted.
process_payment(customer_email, content_id, amount) ==
    /\ running = "MonetizationEngine"
    /\ Len(transactions) < MaxPayments
    /\ IF amount = None
       THEN /\ paid' = FALSE
            /\ UNCHANGED <<content, customers, transactions>>
       ELSE /\ customers' = CustomersAfter(customer_email, amount)
            /\ transactions' = Append(transactions,
                  [customer_id |-> IF CustomerWith(customer_email) = 0
                                   THEN Len(customers) + 1
                                   ELSE CustomerWith(customer_email),
                   content_id |-> content_id,
                   amount |-> amount,
                   status |-> "completed"])
            /\ content' = ContentAfter(content_id, amount)
            /\ paid' = TRUE
    /\ UNCHANGED notPay

payments ==
    \E customer_email \in Emails : \E content_id \in ContentIds :
    \E amount \in Amounts :
        process_payment(customer_email, content_id, amount)

---------------------------------------------------------------------------
(* The MoneyMaker chat service (src/v1.0/x-ai/grok-4.1-fast/money.py): chat(). *)
(* Requests interleave at the awaits of the handler; each call to redis is one *)
(* step.  A behaviour serves the clients of one kind: those without a token    *)
(* (running = "MoneyMaker.free", one ip, time in half hours) or those with a   *)
(* token (running = "MoneyMaker.pro"); the two use disjoint redis keys.        *)

Handlers == {1, 2}
NoToken == "none"
\* checkout session ids: one that was paid, one that Stripe does not confirm
Tokens == {"cs_paid", "cs_other"}

FREE_LIMIT == 5
PRO_LIMIT == 1000
\* expire(free_key, 3600), in half hours
FREE_TTL == 2
NoTTL == -1

\* what GET /v1/checkout/sessions/<token> may give
StripeAnswers(token) ==
    IF token = "cs_paid" THEN {"paid", "unreachable"}
    ELSE {"unpaid", "not_found", "unreachable"}

NoKeys == [paid |-> FALSE, count |-> 0, count_ttl |-> FALSE, older |-> "paid"]

IdleHandler(status) ==
    [at |-> "idle", token |-> NoToken, count |-> 0, status |-> status]

\* the response once the limits are passed: the completion, or 500 on an AI error
Completion(ai_ok) == IdleHandler(IF ai_ok THEN 200 ELSE 500)

\* chat() without a token, up to count = await r.incr(free_key)
FreeBegin(h) ==
    /\ running = "MoneyMaker.free"
    /\ handlers[h].at = "idle"
    /\ free_count < FREE_LIMIT + MaxOver
    /\ free_count' = free_count + 1
    /\ handlers' = [handlers EXCEPT ![h] =
            [at |-> "free_expire", token |-> NoToken, count |-> free_count + 1,
             status |-> 0]]
    /\ UNCHANGED <<notChat, free_ttl, free_recent, pro_keys, pro_admitted>>

\* if count == 1: expire(free_key, 3600); if count > 5: 402; else the completion
FreeCheck(h, ai_ok) ==
    /\ running = "MoneyMaker.free"
    /\ handlers[h].at = "free_expire"
    /\ free_ttl' = IF handlers[h].count = 1 /\ free_count > 0 THEN FREE_TTL
                   ELSE free_ttl
    /\ IF handlers[h].count > FREE_LIMIT
       THEN /\ handlers' = [handlers EXCEPT ![h] = IdleHandler(402)]
            /\ UNCHANGED free_recent
       ELSE /\ handlers' = [handlers EXCEPT ![h] = Completion(ai_ok)]
            /\ free_recent' = [free_recent EXCEPT ![1] = @ + 1]
    /\ UNCHANGED <<notChat, free_count, pro_keys, pro_admitted>>

\* redis drops free:<ip> in the half hour in which its time runs out
FreeExpire ==
    /\ running = "MoneyMaker.free"
    /\ free_count > 0
    /\ free_ttl = 0
    /\ free_count' = 0
    /\ free_ttl' = NoTTL
    /\ UNCHANGED <<notChat, free_recent, pro_keys, pro_admitted, handlers>>

\* half an hour passes
Tick ==
    /\ running = "MoneyMaker.free"
    /\ free_ttl # 0
    /\ free_ttl' = IF free_ttl > 0 THEN free_ttl - 1 ELSE free_ttl
    /\ free_recent' = <<0, free_recent[1]>>
    /\ UNCHANGED <<notChat, free_count, pro_keys, pro_admitted, handlers>>

\* the counts from which the model sends a further query: the first ones of a
\* key and those around the limit
Driven(count, limit) ==
    \/ count <= MaxOver
    \/ count >= limit - 1 /\ count < limit + MaxOver

\* chat() with a token, up to await r.exists(paid_key)
ProBegin(h, token) ==
    /\ running = "MoneyMaker.pro"
    /\ handlers[h].at = "idle"
    /\ Driven(pro_keys[token].count, PRO_LIMIT)
    /\ pro_admitted[token] < PRO_LIMIT + MaxOver
    /\ handlers' = [handlers EXCEPT ![h] =
            [at |-> IF pro_keys[token].paid THEN "incr" ELSE "stripe",
             token |-> token, count |-> 0, status |-> 0]]
    /\ UNCHANGED <<notChat, free_count, free_ttl, free_recent, pro_keys, pro_admitted>>

\* a mutant of StripeConfirms: the payment status is not looked at
StripeConfirmsAnySession(answer) == answer \in {"paid", "unpaid"}

\* resp.status_code == 200 and data.get("payment_status") == "paid"
StripeConfirms(answer) == answer = "paid"

\* where the answer of Stripe leaves a request: 401 unless it confirms (an
\* httpx error is not caught and leaves chat() as a 500)
AfterStripe(handler, answer) ==
    IF answer = "unreachable" THEN IdleHandler(500)
    ELSE IF StripeConfirms(answer) THEN [handler EXCEPT !.at = "set_paid"]
    ELSE IdleHandler(401)

\* the request to Stripe and the test of its answer
StripeGet(h, answer) ==
    /\ running = "MoneyMaker.pro"
    /\ handlers[h].at = "stripe"
    /\ handlers' = [handlers EXCEPT ![h] = AfterStripe(@, answer)]
    /\ UNCHANGED <<notChat, free_count, free_ttl, free_recent, pro_keys, pro_admitted>>

\* await r.set(paid_key, "1", ex=30 * 24 * 3600): the key now has the most time left
SetPaid(h) ==
    /\ running = "MoneyMaker.pro"
    /\ handlers[h].at = "set_paid"
    /\ LET keys == pro_keys[handlers[h].token]
       IN pro_keys' = [pro_keys EXCEPT ![handlers[h].token] =
            [keys EXCEPT !.paid = TRUE,
                         !.older = IF keys.count > 0 /\ keys.count_ttl
                                   THEN "count" ELSE "paid"]]
    /\ handlers' = [handlers EXCEPT ![h].at = "incr"]
    /\ UNCHANGED <<notChat, free_count, free_ttl, free_recent, pro_admitted>>

\* count = await r.incr(count_key)
ProIncr(h) ==
    /\ running = "MoneyMaker.pro"
    /\ handlers[h].at = "incr"
    /\ pro_keys' = [pro_keys EXCEPT ![handlers[h].token].count = @ + 1]
    /\ handlers' = [handlers EXCEPT
            ![h] = [@ EXCEPT !.at = "pro_expire",
                             !.count = pro_keys[handlers[h].token].count + 1]]
    /\ UNCHANGED <<notChat, free_count, free_ttl, free_recent, pro_admitted>>

\* if count == 1: expire(count_key, 30 days); if count > 1000: 402; else the completion
ProCheck(h, ai_ok) ==
    /\ running = "MoneyMaker.pro"
    /\ handlers[h].at = "pro_expire"
    /\ LET token == handlers[h].token
           keys == pro_keys[token]
       IN /\ pro_keys' = [pro_keys EXCEPT ![token] =
                IF handlers[h].count = 1 /\ keys.count > 0
                THEN [keys EXCEPT !.count_ttl = TRUE,
                                  !.older = IF keys.paid THEN "paid" ELSE "count"]
                ELSE keys]
          /\ IF handlers[h].count > PRO_LIMIT
             THEN /\ handlers' = [handlers EXCEPT ![h] = IdleHandler(402)]
                  /\ UNCHANGED pro_admitted
             ELSE /\ handlers' = [handlers EXCEPT ![h] = Completion(ai_ok)]
                  /\ pro_admitted' = [pro_admitted EXCEPT ![token] = @ + 1]
    /\ UNCHANGED <<notChat, free_count, free_ttl, free_recent>>

\* thirty days after it was set, redis drops paid:<token>; of two keys with a
\* time to live the one set first goes first
PaidExpire(token) ==
    /\ running = "MoneyMaker.pro"
    /\ pro_keys[token].paid
    /\ pro_keys[token].count > 0 /\ pro_keys[token].count_ttl
          => pro_keys[token].older = "paid"
    /\ pro_keys' = [pro_keys EXCEPT ![token] = [@ EXCEPT !.paid = FALSE, !.older = "count"]]
    /\ UNCHANGED <<notChat, free_count, free_ttl, free_recent, pro_admitted, handlers>>

\* thirty days after its first increment, redis drops count:<token>
CountExpire(token) ==
    /\ running = "MoneyMaker.pro"
    /\ pro_keys[token].count > 0
    /\ pro_keys[token].count_ttl
    /\ pro_keys[token].paid => pro_keys[token].older = "count"
    /\ pro_keys' = [pro_keys EXCEPT ![token] =
            [@ EXCEPT !.count = 0, !.count_ttl = FALSE, !.older = "paid"]]
    /\ UNCHANGED <<notChat, free_count, free_ttl, free_recent, pro_admitted, handlers>>

chat ==
    \E h \in Handlers :
        \/ FreeBegin(h)
        \/ \E ai_ok \in BOOLEAN : FreeCheck(h, ai_ok)
        \/ \E token \in Tokens : ProBegin(h, token)
        \/ \E answer \in StripeAnswers(handlers[h].token) : StripeGet(h, answer)
        \/ SetPaid(h)
        \/ ProIncr(h)
        \/ \E ai_ok \in BOOLEAN : ProCheck(h, ai_ok)

redis_expiry ==
    \/ FreeExpire
    \/ \E token \in Tokens : PaidExpire(token) \/ CountExpire(token)

\* the service with no request in flight and no key in redis
ChatIdle ==
    /\ free_count = 0
    /\ free_ttl = NoTTL
    /\ free_recent = <<0, 0>>
    /\ pro_keys = [token \in Tokens |-> NoKeys]
    /\ pro_admitted = [token \in Tokens |-> 0]
    /\ handlers = [h \in Handlers |-> IdleHandler(0)]

\* the keys of the paid token at a start: none, or those of 999 queries let
\* through one after the other, either of the two keys being the older one
ProStartKeys ==
    {NoKeys} \cup [paid : {TRUE}, count : {PRO_LIMIT - 1}, count_ttl : {TRUE},
                   older : {"paid", "count"}]

ChatInit ==
    /\ running \in {"MoneyMaker.free", "MoneyMaker.pro"}
    /\ free_count = 0
    /\ free_ttl = NoTTL
    /\ free_recent = <<0, 0>>
    /\ \E keys \in ProStartKeys :
          /\ running = "MoneyMaker.free" => keys = NoKeys
          /\ pro_keys = [token \in Tokens |->
                            IF token = "cs_paid" THEN keys ELSE NoKeys]
          /\ pro_admitted = [token \in Tokens |->
                            IF token = "cs_paid" THEN keys.count ELSE 0]
    /\ handlers = [h \in Handlers |-> IdleHandler(0)]
    /\ ArbInit
    /\ watch = NoKey
    /\ TIMEFRAME = 1
    /\ AlphaIdle
    /\ ApiIdle
    /\ PayIdle

ChatNext == chat \/ redis_expiry \/ Tick

ChatSpec == ChatInit /\ [][ChatNext]_vars

---------------------------------------------------------------------------
(* The specifications *)

\* the service at some time of a UTC day: u2 has sent no request yet, u1 none
\* or, one after the other, one fewer than its limit
ApiInit ==
    /\ running = "ContentAPI"
    /\ users \in [UserIds -> StartRows]
    /\ \E n \in {0, LimitOf(users["u1"].tier) - 1} :
          rate_count = [u \in UserIds |-> IF u = "u1" THEN n ELSE 0]
    /\ admitted = rate_count
    /\ workers = [w \in Workers |-> IdleWorker(0)]
    /\ requests = 0
    /\ ArbInit
    /\ watch = NoKey
    /\ TIMEFRAME = 1
    /\ AlphaIdle
    /\ ChatIdle
    /\ PayIdle

ApiNext == rate_limit \/ webhook

ApiSpec == ApiInit /\ [][ApiNext]_vars

\* an engine just constructed, and calls of its execute_trade
TradeInit ==
    /\ running = "AlphaEngine.execute_trade"
    /\ ArbInit
    /\ watch = NoKey
    /\ TIMEFRAME = 1
    /\ CAPITAL \in Capitals
    /\ AlphaConstructed
    /\ AlphaFresh
    /\ ApiIdle
    /\ ChatIdle
    /\ PayIdle

TradeSpec == TradeInit /\ [][execute_trade_calls]_vars

\* an engine on a new database file, content being created and payments made
PayInit ==
    /\ running = "MonetizationEngine"
    /\ PayIdle
    /\ ArbInit
    /\ watch = NoKey
    /\ TIMEFRAME = 1
    /\ AlphaIdle
    /\ ApiIdle
    /\ ChatIdle

PayNext == create_premium_content \/ payments

PaySpec == PayInit /\ [][PayNext]_vars

Scripts == {"ArbitrageBot", "AlphaEngine"}

\* the scripts at their start, one of them running
Started ==
    /\ running \in Scripts
    /\ ArbInit
    /\ AlphaInit
    /\ running # "AlphaEngine" => TIMEFRAME = 1 /\ AlphaIdle
    /\ ApiIdle
    /\ ChatIdle
    /\ PayIdle

Init == Started /\ watch = NoKey

Next ==
    \/ ArbStep
    \/ Interrupt
    \/ AlphaStep
    \/ AlphaInterrupt

Spec == Init /\ [][Next]_vars

\* each loop runs in a thread of its own and every call it awaits returns or
\* raises (the requests carry timeouts): a step that can be taken is taken
FairSpec == Spec /\ WF_vars(ArbStep) /\ WF_vars(AlphaStep)

\* the keys an observer may watch: those of the first symbol
WatchKeys ==
    {<<SYMBOLS[1], exchanges[b], exchanges[s]>> : b, s \in 1..NumExchanges}
        \ {<<SYMBOLS[1], exchanges[b], exchanges[b]>> : b \in 1..NumExchanges}

\* the scripts with an observer on one opportunity key
CooldownInit == Started /\ watch \in WatchKeys

CooldownSpec == CooldownInit /\ [][Next]_vars

---------------------------------------------------------------------------
(* The detector on every quote set: run() stands at the call of                *)
(* find_arbitrage_opportunities with the market data of one symbol drawn from  *)
(* all tickers and failures, the other symbols having no data.                 *)

DetectorInit ==
    /\ running = "ArbitrageBot"
    /\ pc = "detect"
    /\ fetch_pos = NumSymbols * NumExchanges
    /\ \E answers \in [1..NumExchanges -> AllTickers \cup {FetchFailed}] :
          /\ reported = [s \in SymbolSet |->
                            IF s = SYMBOLS[1] THEN answers
                            ELSE [i \in 1..NumExchanges |-> FetchFailed]]
          /\ market_data = [s \in SymbolSet |->
                            IF s = SYMBOLS[1] THEN Collected(answers) ELSE <<>>]
    /\ opportunities = <<>>
    /\ raised = NoException
    /\ opp_idx = 1
    /\ exec_pc = "idle"
    /\ active_trades = 0
    /\ trade_history = 0
    /\ interrupted = FALSE
    /\ watch = NoKey
    /\ window_acts = 0
    /\ TIMEFRAME = 1
    /\ AlphaIdle
    /\ ApiIdle
    /\ ChatIdle
    /\ PayIdle

DetectorSpec == DetectorInit /\ [][Detect]_vars

---------------------------------------------------------------------------
(* Properties of find_arbitrage_opportunities *)

\* find_arbitrage_opportunities has run on market_data in this cycle
Detected == pc \in {"execute", "sleep", "backoff"}

OppIndices == 1..Len(opportunities)
OppsFor(symbol) == {i \in OppIndices : opportunities[i].symbol = symbol}

\* the entry of an exchange in the quotes of a symbol
QuoteOf(symbol, name) ==
    LET q == market_data[symbol]
    IN q[CHOOSE i \in 1..Len(q) : q[i].exchange = name]

\* a quote that is present and carries a non-zero ask and a non-zero bid
ValidQuote(e) == e.ask # None /\ e.bid # None /\ e.ask # 0 /\ e.bid # 0
\* a quote whose ask and bid are strictly positive numbers
PositiveQuote(e) == e.ask # None /\ e.bid # None /\ e.ask > 0 /\ e.bid > 0

ValidSources(symbol) ==
    {i \in 1..Len(market_data[symbol]) : ValidQuote(market_data[symbol][i])}

Threshold == RatAdd(MIN_PROFIT_PERCENT, FEE_BUFFER)

\* the profit percentage of buying at entry b and selling at entry s
PairDefined(b, s) ==
    b.ask # None /\ s.bid # None /\ b.ask # 0 /\ b.exchange # s.exchange
PairProfit(b, s) == Rat((s.bid - b.ask) * 100, b.ask)

\* C1: with fewer than 2 sources holding a valid (present, non-zero) quote for a
\* symbol, find_arbitrage_opportunities returns no opportunity for that symbol.
C1_FewValidQuotesNoOpportunity ==
    Detected =>
        \A symbol \in SymbolSet :
            Cardinality(ValidSources(symbol)) < 2 => OppsFor(symbol) = {}

\* C2: every returned opportunity has buy_exchange different from sell_exchange.
C2_DistinctExchanges ==
    \A i \in OppIndices :
        opportunities[i].buy_exchange # opportunities[i].sell_exchange

\* an opportunity was returned although one exchange quotes a bid above the
\* lowest ask
C2_Witness ==
    /\ Detected
    /\ \E i \in OppIndices :
          LET o == opportunities[i]
              q == market_data[o.symbol]
          IN \E k \in 1..Len(q) : q[k].bid > q[k].ask /\ q[k].bid > o.buy_price

\* C3: every returned opportunity has sell_price > buy_price, buy_price being the
\* ask of buy_exchange and sell_price the bid of sell_exchange in the quotes.
C3_SellAboveBuy ==
    \A i \in OppIndices :
        LET o == opportunities[i]
        IN /\ o.sell_price > o.buy_price
           /\ o.buy_price = QuoteOf(o.symbol, o.buy_exchange).ask
           /\ o.sell_price = QuoteOf(o.symbol, o.sell_exchange).bid

\* an opportunity was returned whose sell exchange asks more than it bids
C3_Witness ==
    /\ Detected
    /\ \E i \in OppIndices :
          LET o == opportunities[i]
              q == QuoteOf(o.symbol, o.sell_exchange)
          IN q.ask # q.bid /\ o.sell_price = q.bid

\* C4: every returned opportunity has profit_percent = (sell_price - buy_price) /
\* buy_price * 100 of its own prices, and the computation never divides by zero.
C4_ProfitFormulaNoZeroDivision ==
    /\ raised # "ZeroDivisionError"
    /\ \A i \in OppIndices :
          LET o == opportunities[i]
          IN /\ o.buy_price # 0
             /\ RatEq(o.profit_percent,
                      Rat((o.sell_price - o.buy_price) * 100, o.buy_price))

\* C5: no returned opportunity has a profit percentage below
\* MIN_PROFIT_PERCENT + FEE_BUFFER.
C5_ProfitAtLeastThreshold ==
    \A i \in OppIndices : RatGE(opportunities[i].profit_percent, Threshold)

\* an opportunity was returned from quotes that also hold a pair of exchanges
\* whose positive spread stays below the threshold
C5_Witness ==
    /\ Detected
    /\ \E i \in OppIndices :
          LET q == market_data[opportunities[i].symbol]
          IN \E b, s \in 1..Len(q) :
                /\ PairDefined(q[b], q[s])
                /\ q[s].bid > q[b].ask
                /\ ~RatGE(PairProfit(q[b], q[s]), Threshold)

\* the minimum ask and the maximum bid of the strictly positive quotes of a symbol
PositiveQuotes(symbol) ==
    {i \in 1..Len(market_data[symbol]) : PositiveQuote(market_data[symbol][i])}

\* C6: the buy side is the source with the minimum ask and the sell side the
\* source with the maximum bid among the sources whose quotes are strictly
\* positive; a source with a zero or negative ask or bid is never selected.
C6_SidesAmongPositiveQuotes ==
    \A i \in OppIndices :
        LET o == opportunities[i]
            q == market_data[o.symbol]
            pos == PositiveQuotes(o.symbol)
        IN /\ PositiveQuote(QuoteOf(o.symbol, o.buy_exchange))
           /\ PositiveQuote(QuoteOf(o.symbol, o.sell_exchange))
           /\ \A k \in pos : o.buy_price <= q[k].ask
           /\ \A k \in pos : o.sell_price >= q[k].bid

ProfitablePairs(symbol) ==
    LET q == market_data[symbol]
    IN {<<b, s>> \in (1..Len(q)) \X (1..Len(q)) :
            /\ PairDefined(q[b], q[s])
            /\ RatGT(PairProfit(q[b], q[s]), Threshold)}

\* C7: whenever some pair of distinct sources of a symbol has a profit above the
\* threshold, the detector returns an opportunity for the symbol, and its profit
\* is the maximum over all pairs of distinct sources.  Stated on the quote sets
\* whose quotes are all strictly positive, where the profit of every pair is defined.
C7_BestPairFound ==
    Detected =>
        \A symbol \in SymbolSet :
            (/\ PositiveQuotes(symbol) = 1..Len(market_data[symbol])
             /\ ProfitablePairs(symbol) # {}) =>
                \E i \in OppsFor(symbol) :
                    \A pr \in ProfitablePairs(symbol) :
                        LET q == market_data[symbol]
                        IN RatGE(opportunities[i].profit_percent,
                                 PairProfit(q[pr[1]], q[pr[2]]))

---------------------------------------------------------------------------
(* Properties of the fetches and of the loops *)

\* the quotes of the exchanges that answered for a symbol in this cycle
Answered(symbol) == Collected(reported[symbol])

\* some pair of exchanges that answered for the symbol clears the threshold
ProfitableAmongAnswered(symbol) ==
    LET q == Answered(symbol)
    IN \E b, s \in 1..Len(q) :
          PairDefined(q[b], q[s]) /\ RatGT(PairProfit(q[b], q[s]), Threshold)

AllAnsweredPositive ==
    \A symbol \in SymbolSet :
        \A k \in 1..Len(Answered(symbol)) : PositiveQuote(Answered(symbol)[k])

ArbFailedFetchSurfacesAsMissing ==
    /\ pc \in {"fetch", "detect"} => raised = NoException
    /\ \A symbol \in SymbolSet :
          /\ Len(market_data[symbol]) = Len(Answered(symbol))
          /\ \A k \in 1..Len(market_data[symbol]) :
                market_data[symbol][k] = Answered(symbol)[k]

\* C9: a quote fetch that fails in any way (exception, timeout, non-200 response,
\* malformed payload) surfaces only as a missing, None or zero quote and never
\* yields a usable price the source did not report.
C9_FailedFetchYieldsNoPrice ==
    /\ ArbFailedFetchSurfacesAsMissing
    /\ fetched.kind # "ok" => price \in {None, 0}
    /\ fetched.kind = "ok" => price = fetched.reported

\* C11: an opportunity with the same (symbol, buy-source, sell-source) key is
\* acted on at most once within a cooldown window: while the window that the
\* first act on the watched key opened has not run out, run() does not act on
\* that key again.
C11_ActedOnceWithinCooldown == window_acts <= 1

\* the quotes of this cycle's fetches alone
FreshData == [symbol \in SymbolSet |-> Answered(symbol)]

\* C12: every scan cycle runs fetch, detect, act, sleep in this order, and what
\* it acts on is derived from the quotes fetched in the same cycle: detection
\* starts once every ticker of the cycle was attempted, the market data are
\* those fetches and nothing else, the opportunities acted on are the
\* detector's result on them, and the sleep follows the last opportunity.
C12_CycleOrderAndFreshQuotes ==
    /\ [](pc \in {"detect", "execute", "sleep"}
            => /\ fetch_pos = NumSymbols * NumExchanges
               /\ market_data = FreshData)
    /\ [](pc \in {"execute", "sleep"}
            => /\ raised = NoException
               /\ opportunities = find_arbitrage_opportunities(FreshData).opps)
    /\ [](pc = "execute" => opp_idx \in OppIndices)
    /\ [](pc = "sleep" => opp_idx = Len(opportunities) + 1)
    /\ [][pc = "fetch" => pc' \in {"fetch", "detect", "stopped"}]_vars
    /\ [][pc = "detect" => pc' \in {"detect", "execute", "sleep", "backoff", "stopped"}]_vars
    /\ [][pc = "execute" => pc' \in {"execute", "sleep", "stopped"}]_vars
    /\ [][pc = "sleep" => pc' \in {"sleep", "fetch", "stopped"}]_vars
    /\ [][pc' = "fetch" /\ pc # "fetch" => fetch_pos' = 0 /\ market_data' = NoData]_vars

\* a later cycle is about to act on its first opportunity, an earlier cycle
\* having traded on its own
C12_Witness ==
    /\ pc = "execute"
    /\ exec_pc = "idle"
    /\ opp_idx = 1
    /\ trade_history > 0

\* C13: trades are executed one at a time: active_trades is 1 while a call of
\* execute_trade is in progress and 0 whenever none is, on every exit path of
\* the call; it is never negative and never above max_concurrent_trades.
C13_ActiveTradesBracketsCall ==
    /\ exec_pc = "trading" => active_trades = 1
    /\ exec_pc = "idle" => active_trades = 0
    /\ active_trades >= 0
    /\ active_trades <= max_concurrent_trades

\* the call for the first opportunity of a cycle has returned without a trade
\* (balance too small, or an order failed), no trade was ever completed, and the
\* loop stands before the second opportunity
C13_Witness ==
    /\ pc = "execute"
    /\ exec_pc = "idle"
    /\ opp_idx = 2
    /\ trade_history = 0
    /\ active_trades = 0

\* the place of an exchange in the iteration order of a symbol's quotes
PlaceOf(symbol, name) ==
    LET q == market_data[symbol]
    IN CHOOSE i \in 1..Len(q) : q[i].exchange = name

\* C14: when several sources share the minimum ask (or the maximum bid) of a
\* symbol, the detector selects the one that comes first in the iteration order
\* of the quote mapping: no source before the buy side asks as little as it
\* does, none at all asks less, and likewise for the sell side and the bids.
C14_FirstSourceWinsTies ==
    Detected =>
        \A i \in OppIndices :
            LET o == opportunities[i]
                q == market_data[o.symbol]
                b == PlaceOf(o.symbol, o.buy_exchange)
                s == PlaceOf(o.symbol, o.sell_exchange)
            IN /\ \A j \in 1..Len(q) : q[j].ask >= q[b].ask
               /\ \A j \in 1..(b - 1) : q[j].ask > q[b].ask
               /\ \A j \in 1..Len(q) : q[j].bid <= q[s].bid
               /\ \A j \in 1..(s - 1) : q[j].bid < q[s].bid

\* an opportunity was returned from quotes in which a later source asks as
\* little as the buy side and a later source bids as much as the sell side
C14_Witness ==
    /\ Detected
    /\ \E i \in OppIndices :
          LET o == opportunities[i]
              q == market_data[o.symbol]
              b == PlaceOf(o.symbol, o.buy_exchange)
              s == PlaceOf(o.symbol, o.sell_exchange)
          IN /\ \E j \in (b + 1)..Len(q) : q[j].ask = q[b].ask
             /\ \E j \in (s + 1)..Len(q) : q[j].bid = q[s].bid

\* C15: for every user and UTC day the requests admitted by rate_limit never
\* exceed the limit of the user's tier, also when requests of one user are
\* handled at the same time: a request that rate_limit lets through to the
\* handler finds fewer requests of its user admitted than the limit it read.
C15_AdmittedWithinTierLimit ==
    \A w \in Workers :
        workers[w].at = "call" =>
            admitted[workers[w].user] < workers[w].user_limit

\* the requests of a user that have incremented its counter and stand before
\* the call of the handler
BeforeHandler(u) == {w \in Workers : workers[w].at = "call" /\ workers[w].user = u}

\* the step is the rejection of a request by rate_limit
Rejects(w) ==
    /\ workers[w].at \in {"idle", "get"}
    /\ requests' # requests \/ workers'[w] # workers[w]
    /\ workers'[w].at = "idle"
    /\ workers'[w].status \in {401, 429}

\* C19: a request rejected by rate_limit (no API key 401, unknown API key 401,
\* limit reached 429) leaves the daily counters as they are and does not call
\* the wrapped handler; every admitted request increments the counter of its
\* user by exactly 1 before the handler runs, so that the counter is the number
\* of handler calls plus the requests standing right before theirs.
C19_RejectedLeavesCounter ==
    /\ [][(\E w \in Workers : Rejects(w))
            => rate_count' = rate_count /\ admitted' = admitted]_vars
    /\ [](\A u \in UserIds :
            rate_count[u] = admitted[u] + Cardinality(BeforeHandler(u)))
    /\ [][\A u \in UserIds :
            admitted'[u] # admitted[u]
                => /\ admitted'[u] = admitted[u] + 1
                   /\ rate_count'[u] = rate_count[u]
                   /\ \E w \in BeforeHandler(u) :
                         workers'[w] = IdleWorker(200)]_vars
    /\ [][\A u \in UserIds :
            rate_count'[u] # rate_count[u]
                => /\ rate_count'[u] = rate_count[u] + 1
                   /\ \E w \in Workers :
                         /\ workers[w].at = "incr" /\ workers[w].user = u
                         /\ workers'[w].at = "call"]_vars

\* one request of a user was admitted and answered, the next one found the
\* limit reached and got 429
C19_Witness ==
    \E u \in UserIds :
        /\ rate_count[u] = LimitOf(users[u].tier)
        /\ admitted[u] = rate_count[u]
        /\ workers[1].status = 200
        /\ workers[2] = IdleWorker(429)

\* the users whose current subscription is `id`
HoldersOf(id) == {u \in UserIds : users[u].subscription_id = id}

\* C20: after any sequence of webhook events a user has a paid tier exactly when
\* its subscription_id is not NULL; in every state the service reaches,
\* customer.subscription.created sets tier and subscription id of the
\* customer's user together, customer.subscription.deleted resets the users
\* whose current subscription it names to free and NULL and changes no user
\* when none has it, an event of another type changes nothing, and an event
\* with an invalid signature changes nothing and gets 400.
C20_PaidTierIffSubscription ==
    /\ \A u \in UserIds :
          /\ users[u].tier \in Tiers
          /\ users[u].tier \in PaidTiers <=> users[u].subscription_id # NULL
    /\ \A e \in AllWebhookEvents :
          LET r == WebhookResult(users, e)
          IN /\ ~e.valid => r.users = users /\ r.status = 400
             /\ e.valid => r.status = 200
             /\ e.valid /\ e.type = "customer.subscription.created" =>
                   \A u \in UserIds :
                       IF CustomerOf(u) = e.customer
                       THEN /\ r.users[u].subscription_id = e.id
                            /\ r.users[u].tier \in PaidTiers
                            /\ r.users[u].tier = "pro" <=> e.price = STRIPE_PRICE_PRO
                       ELSE r.users[u] = users[u]
             /\ e.valid /\ e.type = "customer.subscription.deleted" =>
                   /\ \A u \in HoldersOf(e.id) : r.users[u] = FreeRow
                   /\ \A u \in UserIds \ HoldersOf(e.id) : r.users[u] = users[u]
                   /\ HoldersOf(e.id) = {} => r.users = users
             /\ e.valid /\ e.type = "invoice.paid" => r.users = users

\* a deletion event has ended the pro subscription of u1, which had 99 requests
\* counted today, and u2 holds a subscription of its own
C20_Witness ==
    /\ users["u1"] = FreeRow
    /\ rate_count["u1"] = LimitOf("pro") - 1
    /\ admitted["u1"] = rate_count["u1"]
    /\ users["u2"].subscription_id # NULL

\* C16: a client without a token is let through to at most 5 chat queries per
\* ip within any one-hour period: the queries let through in two half hours
\* that follow each other are at most 5.
C16_FreeQueriesPerHour == free_recent[1] + free_recent[2] <= FREE_LIMIT

\* C17: a paid token is let through to at most 1000 chat queries over its
\* whole lifetime, across any sequence of requests and key expiries.
C17_ProQueriesPerToken == \A token \in Tokens : pro_admitted[token] <= PRO_LIMIT

\* the answers by which Stripe does not confirm a token as a paid session
NotConfirming == {"unpaid", "not_found"}

\* C18: a request with a token that Stripe does not confirm as a paid checkout
\* session gets 401 before any completion: its handler never gets past the
\* answer of Stripe, which leaves it with the response 401, the token is not
\* marked as paid, its counter is not incremented and no query of it is let
\* through.
C18_UnconfirmedTokenRejected ==
    /\ [](\A h \in Handlers :
            handlers[h].token = "cs_other" =>
                /\ handlers[h].at = "stripe"
                /\ \A answer \in NotConfirming :
                      AfterStripe(handlers[h], answer) = IdleHandler(401))
    /\ [](pro_keys["cs_other"] = NoKeys /\ pro_admitted["cs_other"] = 0)
    /\ [][\A h \in Handlers :
            handlers[h].token = "cs_other" /\ handlers'[h] # handlers[h]
                => /\ handlers'[h] \in {IdleHandler(401), IdleHandler(500)}
                   /\ pro_keys' = pro_keys
                   /\ pro_admitted' = pro_admitted]_vars

\* a request with the unconfirmed token has got its 401 while the paid token,
\* verified and marked as paid, has a request past its counter
C18_Witness ==
    /\ handlers[1] = IdleHandler(401)
    /\ handlers[2].token = "cs_paid"
    /\ handlers[2].at = "pro_expire"
    /\ pro_keys["cs_paid"].paid
    /\ pro_keys["cs_paid"].count = 1

---------------------------------------------------------------------------
(* Properties of AlphaEngine.execute_trade *)

\* the exit marks of an open position at price p: take profit, stop loss
TakeProfitHit(p) == (p - entry_price) * 1000 >= 3 * entry_price
StopLossHit(p) == (p - entry_price) * 10000 <= -15 * entry_price

\* C21 as claimed: after any calls of execute_trade with positive prices,
\* in_position holds exactly when btc_held > 0 and the balance is not negative;
\* a BUY while in position leaves btc_held and entry_price as they were and the
\* position open; a SELL or HOLD while not in position changes nothing.
C21_PositionMatchesHoldings ==
    [][/\ in_position' <=> Positive(btc_held')
       /\ ~Negative(balance')
       /\ in_position /\ signal' = "BUY" =>
              /\ in_position'
              /\ btc_held' = btc_held
              /\ entry_price' = entry_price
       /\ ~in_position /\ signal' \in {"SELL", "HOLD"} => UNCHANGED tradeVars
      ]_vars

\* C21, amended: for an engine started with a positive balance, in_position
\* holds exactly when btc_held > 0 and the balance is not negative; a BUY while
\* in position opens no second position and leaves entry_price as it was, and
\* leaves btc_held as it was unless the price has reached the take-profit or the
\* stop-loss mark, in which case the position is closed; a SELL or HOLD while
\* not in position changes nothing.
C21_PositionMatchesHoldingsAmended ==
    /\ [](CAPITAL > 0 =>
            /\ in_position <=> Positive(btc_held)
            /\ ~Negative(balance))
    /\ [][/\ in_position /\ signal' = "BUY" =>
                /\ entry_price' = entry_price
                /\ IF TakeProfitHit(price') \/ StopLossHit(price')
                   THEN ~in_position' /\ btc_held' = ZeroAmount
                   ELSE in_position' /\ btc_held' = btc_held
          /\ ~in_position /\ signal' \in {"SELL", "HOLD"} => UNCHANGED tradeVars
         ]_vars

\* after a completed trade a position is open, and a BUY at another price than
\* its entry has just come and left it open
C21_Witness ==
    /\ running = "AlphaEngine.execute_trade"
    /\ CAPITAL > 0
    /\ trades_total > 0
    /\ in_position
    /\ signal = "BUY"
    /\ price # entry_price
    /\ Positive(btc_held)

\* a step that is one call of execute_trade; signal' and price' are its arguments
ExecuteTradeCalled ==
    \/ running = "AlphaEngine.execute_trade"
    \/ running = "AlphaEngine" /\ a_pc = "process" /\ a_pc' = "sleep"

\* C22: while in position, a call of execute_trade closes the position exactly
\* when the signal is SELL, or the return on the entry price is at least the
\* take profit of 0.3%, or it is at most the stop loss of -0.15%; a call that
\* closes adds 1 to trades_total and the realised profit (the proceeds it added
\* to the balance less what the coins had cost at the entry price) to
\* total_profit, no other call changes either, and trades_won never exceeds
\* trades_total.
C22_ClosesOnSignalOrMarks ==
    /\ [](trades_won <= trades_total)
    /\ [][ExecuteTradeCalled /\ in_position =>
              (~in_position' <=> \/ signal' = "SELL"
                                 \/ TakeProfitHit(price')
                                 \/ StopLossHit(price'))]_vars
    /\ [][IF in_position /\ ~in_position'
          THEN /\ trades_total' = trades_total + 1
               /\ \E proceeds \in {AmountSub(balance', balance)} :
                  \E cost \in {AmountTimes(btc_held, entry_price)} :
                  \E realised \in {AmountSub(proceeds, cost)} :
                      total_profit' = AmountAdd(total_profit, realised)
               /\ trades_won' \in {trades_won, trades_won + 1}
          ELSE /\ trades_total' = trades_total
               /\ total_profit' = total_profit
               /\ trades_won' = trades_won]_vars

\* a HOLD at a price exactly 0.3% above the entry has closed a position at a
\* profit, after an earlier position was closed at a loss
C22_Witness ==
    /\ running = "AlphaEngine.execute_trade"
    /\ ~in_position
    /\ signal = "HOLD"
    /\ (price - entry_price) * 1000 = 3 * entry_price
    /\ trades_total = 2
    /\ trades_won = 1
    /\ Positive(total_profit)

(* Properties of the price history of AlphaEngine *)

\* the prices recorded so far that a rolling buffer of HISTORY_MAXLEN keeps
Kept == IF ticks < HISTORY_MAXLEN THEN ticks ELSE HISTORY_MAXLEN

\* C23: the price history holds the last 100 prices recorded, or all of them
\* while there are fewer, in the order they arrived; until 20 prices have been
\* recorded analyze_market returns WAIT and no trade is opened; and a tick whose
\* fetched price is None or 0 goes straight to sleep, leaving the history and
\* the trading state as they were.
C23_RollingHistory ==
    [][running = "AlphaEngine" =>
        /\ Len(price_history') = Kept'
        /\ Len(price_history') <= HISTORY_MAXLEN
        /\ \A k \in 1..Kept' : price_history'[k] = ticks' - Kept' + k
        /\ history_len' = Len(price_history')
        /\ ticks' < MIN_HISTORY => ~in_position' /\ trades_total' = 0
        /\ (a_pc = "process" /\ a_pc' = "sleep") =>
              /\ ticks' = ticks + 1
              /\ ticks' < MIN_HISTORY => signal' = "WAIT" /\ UNCHANGED tradeVars
        /\ (a_pc = "get_price" /\ a_pc' # "stopped" /\ ~Truthy(price')) =>
              /\ a_pc' \in {"sleep", "backoff"}
              /\ UNCHANGED <<price_history, ticks, history_len, history_last,
                             signal, tradeVars>>
        /\ a_pc' = "process" => Truthy(price')
        /\ ~(a_pc = "process" /\ a_pc' = "sleep") =>
              UNCHANGED <<price_history, ticks, history_len, tradeVars>>
      ]_vars

\* the history has rolled over, a position was opened from it, and the tick
\* after that fetched no price
C23_Witness ==
    /\ running = "AlphaEngine"
    /\ ticks > HISTORY_MAXLEN
    /\ Len(price_history) = HISTORY_MAXLEN
    /\ in_position
    /\ a_pc = "sleep"
    /\ ~Truthy(price)

(* Properties of MonetizationEngine.process_payment *)

RECURSIVE SumOver(_, _)
\* the sum of a column over the rows of a table
SumOver(rows, field) ==
    IF rows = <<>> THEN 0
    ELSE rows[1][field] + SumOver(Tail(rows), field)

\* the completed rows of transactions
Completed == SelectSeq(transactions, LAMBDA t : t.status = "completed")

\* C24: after any calls of process_payment, the revenue summed over content,
\* the total_spent summed over customers and the amounts summed over the
\* completed transactions are one number, and the purchases summed over
\* content are as many as the completed transactions.
C24_LedgersAgree ==
    /\ SumOver(content, "revenue") = SumOver(customers, "total_spent")
    /\ SumOver(customers, "total_spent") = SumOver(Completed, "amount")
    /\ SumOver(content, "purchases") = Len(Completed)

\* C10: no exception raised inside a cycle ends a scan loop: the handler is
\* entered, the loop sleeps its backoff and a further cycle starts; a loop stops
\* only by an interruption from outside, and until then it always has a next step.
C10_LoopSurvivesExceptions ==
    /\ [][(pc' = "stopped" /\ pc # "stopped") => interrupted']_vars
    /\ [][(a_pc' = "stopped" /\ a_pc # "stopped") => a_interrupted']_vars
    /\ [][(raised' # NoException /\ raised = NoException) => pc' = "backoff"]_vars
    /\ [](running = "ArbitrageBot" /\ pc # "stopped" => ENABLED ArbStep)
    /\ [](running = "AlphaEngine" /\ a_pc # "stopped" => ENABLED AlphaStep)
    /\ (pc = "backoff") ~> (pc = "fetch" \/ pc = "stopped")
    /\ (a_pc = "backoff") ~> (a_pc = "get_price" \/ a_pc = "stopped")

\* the detector has raised and run() sits in its handler's backoff sleep
C10_Witness ==
    /\ pc = "backoff"
    /\ raised = "ZeroDivisionError"
    /\ ~interrupted

===========================================================================
